---------------------------- MODULE Spec2Model ----------------------------
(***************************************************************************)
(* A model of terraform-registry-builder: the build/merge pipeline that    *)
(* turns a source tree of provider artifacts into a static registry tree.  *)
(*                                                                         *)
(* File names, path components and version strings are sequences of        *)
(* one-character strings, so that parsing, path derivation and string      *)
(* comparison are computed as the code computes them.  A path is a         *)
(* sequence of components, relative to the destination root (or to the     *)
(* source root).                                                           *)
(***************************************************************************)
EXTENDS Integers, Sequences, FiniteSets

(***************************************************************************)
(* Strings.                                                                *)
(***************************************************************************)

\* The characters of the model in byte order (Go compares strings byte-wise).
Alphabet ==
    << "-", ".", "0", "1", "2", "3", "4", "5", "6", "7", "8", "9",
       "A", "B", "C", "D", "E", "F", "G", "H", "I", "J", "K", "L", "M",
       "N", "O", "P", "Q", "R", "S", "T", "U", "V", "W", "X", "Y", "Z", "_",
       "a", "b", "c", "d", "e", "f", "g", "h", "i", "j", "k", "l", "m",
       "n", "o", "p", "q", "r", "s", "t", "u", "v", "w", "x", "y", "z" >>

Ord(c) == CHOOSE i \in 1..Len(Alphabet) : Alphabet[i] = c

\* Go's s < t on strings: the first differing byte decides, a proper prefix is less.
RECURSIVE StrLess(_, _)
StrLess(s, t) ==
    IF t = <<>> THEN FALSE
    ELSE IF s = <<>> THEN TRUE
    ELSE IF Head(s) = Head(t) THEN StrLess(Tail(s), Tail(t))
    ELSE Ord(Head(s)) < Ord(Head(t))

\* strings.HasPrefix
HasPrefix(s, p) == Len(s) >= Len(p) /\ SubSeq(s, 1, Len(p)) = p

\* strings.HasSuffix
HasSuffix(s, x) == Len(s) >= Len(x) /\ SubSeq(s, Len(s) - Len(x) + 1, Len(s)) = x

\* No byte of s is the character c (a negated character class [^c]).
NoChar(s, c) == \A i \in 1..Len(s) : s[i] # c

\* The least position >= from at which s holds c, or 0.
IndexFrom(s, c, from) ==
    LET hits == { i \in from..Len(s) : s[i] = c }
    IN  IF hits = {} THEN 0 ELSE CHOOSE i \in hits : \A j \in hits : i <= j

StrTerraformProvider ==
    << "t", "e", "r", "r", "a", "f", "o", "r", "m", "-",
       "p", "r", "o", "v", "i", "d", "e", "r", "-" >>
StrUnderscoreV == << "_", "v" >>
StrUnderscore == << "_" >>
StrExe == << ".", "e", "x", "e" >>
StrZip == << ".", "z", "i", "p" >>
StrDownload == << "d", "o", "w", "n", "l", "o", "a", "d" >>
StrVersions == << "v", "e", "r", "s", "i", "o", "n", "s" >>
StrIndexJson == << "i", "n", "d", "e", "x", ".", "j", "s", "o", "n" >>
StrSHA256SUMS == << "_", "S", "H", "A", "2", "5", "6", "S", "U", "M", "S" >>
StrSig == << ".", "s", "i", "g" >>
StrDot == << "." >>
StrDotDot == << ".", "." >>

(***************************************************************************)
(* internal/provider: the name parser and the path deriver.                *)
(***************************************************************************)

\* filepath.Base of a path given as a sequence of components.
Base(path) == path[Len(path)]

\* The rest of a name after the os/arch delimiter at k: the arch, which holds
\* no '.', followed by nothing, by ".exe" or by ".zip".
\* An arch taken from a name that may end in ".exe" and then ".zip".
ArchOfStacked(s, k) ==
    LET rest == SubSeq(s, k + 1, Len(s))
        unzipped == IF HasSuffix(rest, StrZip)
                    THEN SubSeq(rest, 1, Len(rest) - Len(StrZip)) ELSE rest
    IN  IF HasSuffix(unzipped, StrExe)
        THEN SubSeq(unzipped, 1, Len(unzipped) - Len(StrExe))
        ELSE unzipped

ArchOf(s, k) ==
    LET rest == SubSeq(s, k + 1, Len(s))
    IN  IF HasSuffix(rest, StrExe) THEN SubSeq(rest, 1, Len(rest) - Len(StrExe))
        ELSE IF HasSuffix(rest, StrZip) THEN SubSeq(rest, 1, Len(rest) - Len(StrZip))
        ELSE rest

ExtOf(s, k) ==
    IF HasSuffix(SubSeq(s, k + 1, Len(s)), StrExe) THEN StrExe ELSE <<>>

\* providerRegex, for a type that ends just before position i:
\*   ^terraform-provider-([^-]+)_v([^_]+)_([^_]+)_([^.]+)(?:(\.exe)$|(?:\.zip)$)?$
\* The version and the os hold no '_', so each ends at the first '_' after
\* its start.
RegexMatchAt(s, i) ==
    LET p == Len(StrTerraformProvider)
        j == IndexFrom(s, "_", i + 2)
        k == IF j = 0 THEN 0 ELSE IndexFrom(s, "_", j + 1)
    IN  /\ i > p + 1
        /\ i + 1 <= Len(s)
        /\ s[i] = "_" /\ s[i + 1] = "v"
        /\ NoChar(SubSeq(s, p + 1, i - 1), "-")
        /\ j > i + 2
        /\ k > j + 1
        /\ ArchOf(s, k) # <<>>
        /\ NoChar(ArchOf(s, k), ".")

\* The submatches of providerRegex on s at i: type, version, os, arch, ext.
Submatches(s, i) ==
    LET p == Len(StrTerraformProvider)
        j == IndexFrom(s, "_", i + 2)
        k == IndexFrom(s, "_", j + 1)
    IN  [ Type    |-> SubSeq(s, p + 1, i - 1),
          Version |-> SubSeq(s, i + 2, j - 1),
          OS      |-> SubSeq(s, j + 1, k - 1),
          Arch    |-> ArchOf(s, k),
          Ext     |-> ExtOf(s, k) ]

NoInfo == [ Type |-> <<>>, Version |-> <<>>, OS |-> <<>>, Arch |-> <<>>, Ext |-> <<>> ]

\* ParseProviderFileName: the base name is matched against providerRegex; the
\* type's [^-]+ is greedy, so the match with the longest type is the one taken.
ParseProviderFileName(filename) ==
    LET s    == Base(filename)
        at   == IF HasPrefix(s, StrTerraformProvider)
                THEN { i \in 1..Len(s) : RegexMatchAt(s, i) }
                ELSE {}
    IN  IF at = {} THEN [ err |-> TRUE, info |-> NoInfo ]
        ELSE [ err  |-> FALSE,
               info |-> Submatches(s, CHOOSE i \in at : \A j \in at : j <= i) ]

\* filepath.Clean on a sequence of components: "." and empty components are
\* dropped, ".." removes the component before it.
RECURSIVE CleanOnto(_, _)
CleanOnto(done, todo) ==
    IF todo = <<>> THEN done
    ELSE LET c == Head(todo)
         IN  IF c = <<>> \/ c = StrDot THEN CleanOnto(done, Tail(todo))
             ELSE IF c = StrDotDot /\ done # <<>> /\ done[Len(done)] # StrDotDot
                  THEN CleanOnto(SubSeq(done, 1, Len(done) - 1), Tail(todo))
             ELSE CleanOnto(Append(done, c), Tail(todo))

\* filepath.Join
Join(parts) == CleanOnto(<<>>, parts)

TargetDownloadPath(p) == Join(<< p.Type, p.Version, StrDownload, p.OS, p.Arch >>)

TargetVersionsDir(p) == Join(<< p.Type, StrVersions >>)

TargetVersionsIndexPath(p) == Join(<< p.Type, StrVersions, StrIndexJson >>)

TargetDownloadIndexPath(p) == Join(TargetDownloadPath(p) \o << StrIndexJson >>)

\* An archive name with '-' where the pattern has '_' before the version.
TargetZipFileNameDashV(p) ==
    StrTerraformProvider \o p.Type \o << "-", "v" >> \o p.Version
        \o StrUnderscore \o p.OS \o StrUnderscore \o p.Arch \o StrZip

TargetZipFileName(p) ==
    StrTerraformProvider \o p.Type \o StrUnderscoreV \o p.Version
        \o StrUnderscore \o p.OS \o StrUnderscore \o p.Arch \o StrZip

TargetZipPath(p) == Join(TargetDownloadPath(p) \o << TargetZipFileName(p) >>)

TargetSHASumsFileName(p) ==
    StrTerraformProvider \o p.Type \o StrUnderscoreV \o p.Version
        \o StrUnderscore \o p.OS \o StrUnderscore \o p.Arch \o StrSHA256SUMS

TargetSHASumsPath(p) == Join(TargetDownloadPath(p) \o << TargetSHASumsFileName(p) >>)

TargetSigFileName(p) == TargetSHASumsFileName(p) \o StrSig

TargetSigPath(p) == Join(TargetDownloadPath(p) \o << TargetSigFileName(p) >>)

\* IsZipFile: the suffix test on the path is a test on its base name, which is
\* longer than the suffix for every name the parser accepts.
IsZipFile(filename) == HasSuffix(Base(filename), StrZip)

InnerZipFileName(p) ==
    StrTerraformProvider \o p.Type \o StrUnderscoreV \o p.Version \o p.Ext

(***************************************************************************)
(* The filesystem.  fs.dirs is the set of directories, fs.files maps each  *)
(* regular file's path to its content, and fs.log is the sequence of the   *)
(* paths opened for writing since the log was last cleared (a file         *)
(* rewritten with the bytes it had is a write all the same).  A library    *)
(* call that fails has no effect of its own; what the calls before it did  *)
(* stays done.  `fault` names the library call that fails, "none" when     *)
(* none does.                                                              *)
(***************************************************************************)

NoFs == [ dirs |-> {}, files |-> << >>, log |-> << >> ]

ClearLog(fs) == [ fs EXCEPT !.log = << >> ]

Exists(fs, path) == path \in fs.dirs \/ path \in DOMAIN fs.files

IsFile(fs, path) == path \in DOMAIN fs.files

\* filepath.Dir
Dir(path) == SubSeq(path, 1, Len(path) - 1)

Prefixes(path) == { SubSeq(path, 1, n) : n \in 0..Len(path) }

PutFile(fs, path, content) ==
    [ fs EXCEPT !.files =
                  [ q \in DOMAIN fs.files \cup { path } |->
                      IF q = path THEN content ELSE fs.files[q] ],
                !.log = Append(@, path) ]

\* os.MkdirAll: the directory and its missing parents; an error when a
\* regular file stands in the way.
MkdirAll(fs, path, failed) ==
    IF failed \/ \E q \in Prefixes(path) : IsFile(fs, q)
    THEN [ err |-> TRUE, fs |-> fs ]
    ELSE [ err |-> FALSE, fs |-> [ fs EXCEPT !.dirs = @ \cup Prefixes(path) ] ]

\* EnsureDir
EnsureDir(fs, path, failed) == MkdirAll(fs, path, failed)

\* os.Create and os.WriteFile open with O_CREATE|O_TRUNC: the parent must be
\* a directory and the path must not be one.
CanCreate(fs, path) == Dir(path) \in fs.dirs /\ path \notin fs.dirs

\* os.WriteFile
WriteFile(fs, path, content, failed) ==
    IF failed \/ ~CanCreate(fs, path)
    THEN [ err |-> TRUE, fs |-> fs ]
    ELSE [ err |-> FALSE, fs |-> PutFile(fs, path, content) ]

\* A file of no bytes.
EmptyFile == [ kind |-> "empty" ]

\* CopyFile: open the source, ensure the parent directory, create the
\* destination (truncating it), copy the content.
CopyFile(fs, srcContent, dst, fault) ==
    IF fault = "pkg_open" THEN [ err |-> TRUE, fs |-> fs ]
    ELSE LET d == EnsureDir(fs, Dir(dst), fault = "pkg_mkdir")
         IN  IF d.err THEN [ err |-> TRUE, fs |-> d.fs ]
             ELSE IF fault = "pkg_create" \/ ~CanCreate(d.fs, dst)
                  THEN [ err |-> TRUE, fs |-> d.fs ]
             ELSE IF fault = "pkg_copy"
                  THEN [ err |-> TRUE, fs |-> PutFile(d.fs, dst, EmptyFile) ]
             ELSE [ err |-> FALSE, fs |-> PutFile(d.fs, dst, srcContent) ]

\* header.SetMode(0755)
ZipEntryMode == 493

\* A time in UTC, to the second.
Time(year, month, day, hour, minute, second) ==
    [ Year |-> year, Month |-> month, Day |-> day,
      Hour |-> hour, Minute |-> minute, Second |-> second ]

\* time.Time{}: January 1, year 1, 00:00:00 UTC.
ZeroTime == Time(1, 1, 1, 0, 0, 0)

\* The conversion uint16(n) of an int: its low 16 bits.
Uint16(n) == n % 65536

\* A conversion to MS-DOS date and time that keeps the whole integers.
TimeToMsDosTimeWide(t) ==
    [ Date |-> t.Day + t.Month * 32 + (t.Year - 1980) * 512,
      Time |-> t.Second \div 2 + t.Minute * 32 + t.Hour * 2048 ]

\* archive/zip timeToMsDosTime: day in bits 0-4, month in bits 5-8, years since
\* 1980 in bits 9-15 of a uint16; second/2, minute and hour in another.
TimeToMsDosTime(t) ==
    [ Date |-> Uint16(t.Day + t.Month * 32 + (t.Year - 1980) * 512),
      Time |-> Uint16(t.Second \div 2 + t.Minute * 32 + t.Hour * 2048) ]

\* archive/zip msDosTimeToTime, by which the modification time of an entry
\* without an extended timestamp is read.
MsDosTimeToTime(dosDate, dosTime) ==
    Time(dosDate \div 512 + 1980, (dosDate \div 32) % 16, dosDate % 32,
         dosTime \div 2048, (dosTime \div 32) % 64, (dosTime % 32) * 2)

\* header.SetModTime(time.Time{}): the ModifiedDate and ModifiedTime of the
\* header; Modified is the zero time, for which the writer adds no extended
\* timestamp.
ZipEntryModTime == TimeToMsDosTime(ZeroTime)

\* The bytes of a zip archive, as the sequence of its entries.
ZipArchive(entries) == [ kind |-> "zip", entries |-> entries ]

ZipEntry(name, data) ==
    [ Name |-> name, Method |-> "Deflate", Mode |-> ZipEntryMode,
      ModTime |-> ZipEntryModTime, data |-> data ]

\* A packaging whose errors are lost: it reports success also when it has
\* written nothing.
CreateZipFromBinaryUnchecked(fs, binaryPath, binaryContent, zipPath, fault) ==
    IF fault \in { "pkg_open", "pkg_mkdir", "pkg_create", "pkg_header", "pkg_copy" }
    THEN [ err |-> FALSE, fs |-> fs ]
    ELSE [ err |-> FALSE,
           fs  |-> PutFile(fs, zipPath, ZipArchive(
                     << ZipEntry(InnerZipFileName(ParseProviderFileName(binaryPath).info),
                                 binaryContent) >>)) ]

\* CreateZipFromBinary: the zip file is created before the binary is opened
\* and its name parsed, and the deferred zipWriter.Close() ends the archive
\* on every return after that.
CreateZipFromBinary(fs, binaryPath, binaryContent, zipPath, fault) ==
    LET d    == EnsureDir(fs, Dir(zipPath), fault = "pkg_mkdir")
        info == ParseProviderFileName(binaryPath)
    IN  IF d.err THEN [ err |-> TRUE, fs |-> d.fs ]
        ELSE IF fault = "pkg_create" \/ ~CanCreate(d.fs, zipPath)
             THEN [ err |-> TRUE, fs |-> d.fs ]
        ELSE IF fault = "pkg_open" \/ info.err \/ fault = "pkg_header"
             THEN [ err |-> TRUE, fs |-> PutFile(d.fs, zipPath, ZipArchive(<< >>)) ]
        ELSE IF fault = "pkg_copy"
             THEN [ err |-> TRUE,
                    fs  |-> PutFile(d.fs, zipPath, ZipArchive(
                              << ZipEntry(InnerZipFileName(info.info), EmptyFile) >>)) ]
        ELSE [ err |-> FALSE,
               fs  |-> PutFile(d.fs, zipPath, ZipArchive(
                         << ZipEntry(InnerZipFileName(info.info), binaryContent) >>)) ]

(***************************************************************************)
(* file: the versions index.                                               *)
(***************************************************************************)

\* A VersionsIndex value; Warnings is never set by the program.
VersionsIndex(id, versions) == [ ID |-> id, Versions |-> versions ]

\* Platform
Platform(os, arch) == [ OS |-> os, Arch |-> arch ]

\* The protocols of every VersionInfo the program creates.
Protocols == << "6.0" >>

\* VersionInfo
VersionInfo(version, platforms) ==
    [ Version |-> version, Protocols |-> Protocols, Platforms |-> platforms ]

\* json.MarshalIndent of a VersionsIndex: the bytes of the document.  The
\* strings of the model are made of the characters of Alphabet, which JSON
\* writes and reads back as they are (a byte that is no valid UTF-8 would
\* be replaced).
MarshalVersionsIndex(index) == [ kind |-> "json", doc |-> "versions", value |-> index ]

\* json.Unmarshal into a VersionsIndex: the document of a versions index gives
\* its value back, any other JSON object gives the zero value (unknown fields
\* are ignored), and bytes that are not JSON are an error.
UnmarshalVersionsIndex(data) ==
    IF data.kind = "json"
    THEN [ err   |-> FALSE,
           index |-> IF data.doc = "versions" THEN data.value
                     ELSE VersionsIndex(<< >>, << >>) ]
    ELSE [ err |-> TRUE, index |-> VersionsIndex(<< >>, << >>) ]

\* A read that always starts from a new empty index.
ReadVersionsIndexNew(fs, path, id, fault) ==
    [ err |-> FALSE, index |-> VersionsIndex(id, << >>) ]

\* A read that recovers from an index it cannot parse with a new empty index.
ReadVersionsIndexRecovering(fs, path, id, fault) ==
    IF ~Exists(fs, path) THEN [ err |-> FALSE, index |-> VersionsIndex(id, << >>) ]
    ELSE IF fault = "idx_read" \/ ~IsFile(fs, path)
         THEN [ err |-> TRUE, index |-> VersionsIndex(<< >>, << >>) ]
    ELSE IF fs.files[path] = EmptyFile \/ UnmarshalVersionsIndex(fs.files[path]).err
         THEN [ err |-> FALSE, index |-> VersionsIndex(id, << >>) ]
    ELSE UnmarshalVersionsIndex(fs.files[path])

\* ReadVersionsIndex: a missing or empty file is a new empty index with the
\* given id.
ReadVersionsIndex(fs, path, id, fault) ==
    IF ~Exists(fs, path) THEN [ err |-> FALSE, index |-> VersionsIndex(id, << >>) ]
    ELSE IF fault = "idx_read" \/ ~IsFile(fs, path)
         THEN [ err |-> TRUE, index |-> VersionsIndex(<< >>, << >>) ]
    ELSE IF fs.files[path] = EmptyFile
         THEN [ err |-> FALSE, index |-> VersionsIndex(id, << >>) ]
    ELSE UnmarshalVersionsIndex(fs.files[path])

\* The position of the first entry of the version, or 0.
FindVersion(versions, version) ==
    LET hits == { i \in 1..Len(versions) : versions[i].Version = version }
    IN  IF hits = {} THEN 0 ELSE CHOOSE i \in hits : \A j \in hits : i <= j

HasPlatform(platforms, os, arch) ==
    \E i \in 1..Len(platforms) : platforms[i].OS = os /\ platforms[i].Arch = arch

\* A descending comparison of the versions as numbers: of digit strings
\* without leading zeros the longer is the larger.
VersionBeforeNumeric(a, b) ==
    \/ Len(b.Version) < Len(a.Version)
    \/ Len(b.Version) = Len(a.Version) /\ StrLess(b.Version, a.Version)

\* The comparison AddVersion sorts by: descending by string comparison.
VersionBefore(a, b) == StrLess(b.Version, a.Version)

\* One pass of the insertion sort: the element at j moves left while it is
\* before its left neighbour.
RECURSIVE SinkLeft(_, _)
SinkLeft(seq, j) ==
    IF j > 1 /\ VersionBefore(seq[j], seq[j - 1])
    THEN SinkLeft([ seq EXCEPT ![j - 1] = seq[j], ![j] = seq[j - 1] ], j - 1)
    ELSE seq

RECURSIVE InsertionSortFrom(_, _)
InsertionSortFrom(seq, i) ==
    IF i > Len(seq) THEN seq ELSE InsertionSortFrom(SinkLeft(seq, i), i + 1)

\* sort.Slice with the descending comparison; slices of fewer than 12
\* elements are insertion-sorted.
SortVersions(versions) == InsertionSortFrom(versions, 2)

\* A merge that gives a version it has found the one platform it adds.
AddVersionOnePlatform(vi, version, os, arch) ==
    LET i == FindVersion(vi.Versions, version)
    IN  [ vi EXCEPT !.Versions =
            IF i = 0
            THEN SortVersions(Append(vi.Versions,
                                     VersionInfo(version, << Platform(os, arch) >>)))
            ELSE [ vi.Versions EXCEPT ![i].Platforms = << Platform(os, arch) >> ] ]

\* A merge that never looks for the version: it always appends an entry.
AddVersionAppending(vi, version, os, arch) ==
    [ vi EXCEPT !.Versions =
        SortVersions(Append(vi.Versions, VersionInfo(version, << Platform(os, arch) >>))) ]

\* A merge that never looks for the platform in the entry it has found.
AddVersionAnyPlatform(vi, version, os, arch) ==
    LET i == FindVersion(vi.Versions, version)
    IN  [ vi EXCEPT !.Versions =
            SortVersions(
              IF i = 0
              THEN Append(vi.Versions, VersionInfo(version, << Platform(os, arch) >>))
              ELSE [ vi.Versions EXCEPT ![i].Platforms = Append(@, Platform(os, arch)) ]) ]

\* AddVersion
AddVersion(vi, version, os, arch) ==
    LET i == FindVersion(vi.Versions, version)
        added ==
            IF i = 0
            THEN Append(vi.Versions, VersionInfo(version, << Platform(os, arch) >>))
            ELSE IF HasPlatform(vi.Versions[i].Platforms, os, arch)
                 THEN vi.Versions
            ELSE [ vi.Versions EXCEPT ![i].Platforms = Append(@, Platform(os, arch)) ]
    IN  [ vi EXCEPT !.Versions = SortVersions(added) ]

\* WriteVersionsIndex
WriteVersionsIndex(fs, path, index, fault) ==
    LET d == EnsureDir(fs, Dir(path), fault = "idx_mkdir")
    IN  IF d.err THEN [ err |-> TRUE, fs |-> d.fs ]
        ELSE WriteFile(d.fs, path, MarshalVersionsIndex(index), fault = "idx_write")

(***************************************************************************)
(* file: checksum, signature and download index.                           *)
(***************************************************************************)

\* SHA-256 is modelled as collision-free: the digest names the bytes hashed.
Sha256Hex(content) == [ kind |-> "sha256", of |-> content ]

\* CalculateSHA256
CalculateSHA256(fs, filePath, failed) ==
    IF failed \/ ~IsFile(fs, filePath)
    THEN [ err |-> TRUE, hash |-> Sha256Hex(EmptyFile) ]
    ELSE [ err |-> FALSE, hash |-> Sha256Hex(fs.files[filePath]) ]

\* The content of a SHA256SUMS file, as the sequence of its lines.
SumsFile(lines) == [ kind |-> "sums", lines |-> lines ]

\* fmt.Sprintf("%s  %s\n", hash, name)
SumsLine(hash, name) == [ hash |-> hash, sep |-> "  ", name |-> name, end |-> "\n" ]

\* A checksum step that writes the path of the archive where its base name
\* belongs.
WriteSHA256SumsFileWithPath(fs, zipFilePath, shaSumsPath, fault) ==
    WriteFile(fs, shaSumsPath,
              SumsFile(<< SumsLine(Sha256Hex(fs.files[zipFilePath]), zipFilePath) >>),
              fault = "sum_write")

\* WriteSHA256SumsFile
\* A checksum step that reports an error after the file was written.
WriteSHA256SumsFileThenFail(fs, zipFilePath, shaSumsPath, fault) ==
    [ err |-> TRUE, fs |-> PutFile(fs, shaSumsPath, EmptyFile) ]

WriteSHA256SumsFile(fs, zipFilePath, shaSumsPath, fault) ==
    LET h == CalculateSHA256(fs, zipFilePath, fault = "sum_hash")
    IN  IF h.err THEN [ err |-> TRUE, fs |-> fs ]
        ELSE WriteFile(fs, shaSumsPath,
                       SumsFile(<< SumsLine(h.hash, Base(zipFilePath)) >>),
                       fault = "sum_write")

\* The key material the environment supplies to GetGPGPrivateKey.
GpgEnvs == { "valid", "unset", "malformed", "wrong_passphrase" }

KeyID == "key_id"
PublicKeyArmor == "public_key"

\* GetGPGPrivateKey: an error when neither a key file nor a key is set.
GetGPGPrivateKey(gpg) == [ err |-> gpg = "unset", keyID |-> KeyID ]

\* A detached signature of the data by the key.
Signature(data) == [ kind |-> "sig", over |-> data, keyID |-> KeyID ]

\* SignFile
\* A signing step whose errors are lost.
SignFileUnchecked(fs, filePath, signaturePath, gpg, fault) ==
    [ err |-> FALSE, fs |-> fs ]

SignFile(fs, filePath, signaturePath, gpg, fault) ==
    IF \/ GetGPGPrivateKey(gpg).err
       \/ fault = "sign_read" \/ ~IsFile(fs, filePath)
       \/ gpg = "malformed"
       \/ gpg = "wrong_passphrase"
       \/ fault = "sign_sign"
    THEN [ err |-> TRUE, fs |-> fs ]
    ELSE WriteFile(fs, signaturePath, Signature(fs.files[filePath]),
                   fault = "sign_write")

\* GetPublicKey
GetPublicKey(gpg) == [ err |-> gpg = "malformed", armor |-> PublicKeyArmor ]

\* strings.Split(s, "_")
RECURSIVE SplitUnderscore(_)
SplitUnderscore(s) ==
    LET k == IndexFrom(s, "_", 1)
    IN  IF k = 0 THEN << s >>
        ELSE << SubSeq(s, 1, k - 1) >> \o SplitUnderscore(SubSeq(s, k + 1, Len(s)))

\* strings.TrimSuffix
TrimSuffix(s, x) == IF HasSuffix(s, x) THEN SubSeq(s, 1, Len(s) - Len(x)) ELSE s

\* json.MarshalIndent of a DownloadIndex.
MarshalDownloadIndex(index) == [ kind |-> "json", doc |-> "download", value |-> index ]

\* WriteDownloadIndex: os and arch are the last two fields of the zip file
\* name split at its underscores.
\* A download index step that reports success and writes nothing.
WriteDownloadIndexNothing(fs, zipPath, shasumsPath, sigPath, downloadIndexPath, gpg, fault) ==
    [ err |-> FALSE, fs |-> fs ]

\* A download index step that records the digest of the checksum manifest
\* where the digest of the archive belongs.
WriteDownloadIndexOfSums(fs, zipPath, shasumsPath, sigPath, downloadIndexPath, gpg, fault) ==
    LET zipFileName == Base(zipPath)
        parts       == SplitUnderscore(zipFileName)
        shasum      == CalculateSHA256(fs, shasumsPath, fault = "dl_hash")
    IN  IF \/ Len(parts) < 2
           \/ shasum.err
           \/ GetGPGPrivateKey(gpg).err
           \/ GetPublicKey(gpg).err
        THEN [ err |-> TRUE, fs |-> fs ]
        ELSE WriteFile(fs, downloadIndexPath,
                 MarshalDownloadIndex(
                   [ Protocols           |-> << "6.0" >>,
                     OS                  |-> parts[Len(parts) - 1],
                     Arch                |-> TrimSuffix(parts[Len(parts)], StrZip),
                     Filename            |-> zipFileName,
                     DownloadURL         |-> zipFileName,
                     ShasumsURL          |-> Base(shasumsPath),
                     ShasumsSignatureURL |-> Base(sigPath),
                     Shasum              |-> shasum.hash,
                     SigningKeys         |->
                       << [ KeyID |-> KeyID, ASCIIArmor |-> PublicKeyArmor ] >> ]),
                 fault = "dl_write")

WriteDownloadIndex(fs, zipPath, shasumsPath, sigPath, downloadIndexPath, gpg, fault) ==
    LET zipFileName == Base(zipPath)
        parts       == SplitUnderscore(zipFileName)
        shasum      == CalculateSHA256(fs, zipPath, fault = "dl_hash")
    IN  IF \/ Len(parts) < 2
           \/ shasum.err
           \/ GetGPGPrivateKey(gpg).err
           \/ GetPublicKey(gpg).err
        THEN [ err |-> TRUE, fs |-> fs ]
        ELSE WriteFile(fs, downloadIndexPath,
                 MarshalDownloadIndex(
                   [ Protocols           |-> << "6.0" >>,
                     OS                  |-> parts[Len(parts) - 1],
                     Arch                |-> TrimSuffix(parts[Len(parts)], StrZip),
                     Filename            |-> zipFileName,
                     DownloadURL         |-> zipFileName,
                     ShasumsURL          |-> Base(shasumsPath),
                     ShasumsSignatureURL |-> Base(sigPath),
                     Shasum              |-> shasum.hash,
                     SigningKeys         |->
                       << [ KeyID |-> KeyID, ASCIIArmor |-> PublicKeyArmor ] >> ]),
                 fault = "dl_write")

(***************************************************************************)
(* builder: the pipeline of one provider file.                             *)
(***************************************************************************)

\* The check processProviderFile makes on the loaded index: the first entry
\* of the version decides.
\* A gate that finds nothing in the index: every file is published again.
NeedsAddingAlways(versionsIndex, info) == TRUE

NeedsAdding(versionsIndex, info) ==
    LET i == FindVersion(versionsIndex.Versions, info.Version)
    IN  i = 0 \/ ~HasPlatform(versionsIndex.Versions[i].Platforms, info.OS, info.Arch)

\* The steps of processProviderFile after the index was loaded and the
\* version/platform found missing: target and versions directories, the
\* archive, the index, the checksums, the signature, the download index.
\* `step` is the last step that succeeded.
Publish(fs, filePath, content, info, versionsIndex, gpg, fault) ==
    LET targetZipPath     == TargetZipPath(info)
        versionsIndexPath == TargetVersionsIndexPath(info)
        shaSumsPath       == TargetSHASumsPath(info)
        sigPath           == TargetSigPath(info)
        d1 == EnsureDir(fs, TargetDownloadPath(info), fault = "mkdir_target")
        d2 == EnsureDir(d1.fs, TargetVersionsDir(info), fault = "mkdir_versions")
        zp == IF IsZipFile(filePath)
              THEN CopyFile(d2.fs, content, targetZipPath, fault)
              ELSE CreateZipFromBinary(d2.fs, filePath, content, targetZipPath, fault)
        ix == WriteVersionsIndex(zp.fs, versionsIndexPath,
                  AddVersion(versionsIndex, info.Version, info.OS, info.Arch), fault)
        sm == WriteSHA256SumsFile(ix.fs, targetZipPath, shaSumsPath, fault)
        sg == SignFile(sm.fs, shaSumsPath, sigPath, gpg, fault)
        dl == WriteDownloadIndex(sg.fs, targetZipPath, shaSumsPath, sigPath,
                  TargetDownloadIndexPath(info), gpg, fault)
    IN  IF d1.err THEN [ err |-> TRUE, fs |-> d1.fs, step |-> "gate" ]
        ELSE IF d2.err THEN [ err |-> TRUE, fs |-> d2.fs, step |-> "gate" ]
        ELSE IF zp.err THEN [ err |-> TRUE, fs |-> zp.fs, step |-> "dirs" ]
        ELSE IF ix.err THEN [ err |-> TRUE, fs |-> ix.fs, step |-> "packaged" ]
        ELSE IF sm.err THEN [ err |-> TRUE, fs |-> sm.fs, step |-> "indexed" ]
        ELSE IF sg.err THEN [ err |-> TRUE, fs |-> sg.fs, step |-> "summed" ]
        ELSE IF dl.err THEN [ err |-> TRUE, fs |-> dl.fs, step |-> "signed" ]
        ELSE [ err |-> FALSE, fs |-> dl.fs, step |-> "done" ]

\* processProviderFile
processProviderFile(fs, filePath, content, gpg, fault) ==
    LET parsed == ParseProviderFileName(filePath)
        info   == parsed.info
        loaded == ReadVersionsIndex(fs, TargetVersionsIndexPath(info), info.Type, fault)
    IN  IF parsed.err THEN [ err |-> TRUE, fs |-> fs, step |-> "discovered" ]
        ELSE IF loaded.err THEN [ err |-> TRUE, fs |-> fs, step |-> "parsed" ]
        ELSE IF ~NeedsAdding(loaded.index, info)
             THEN [ err |-> FALSE, fs |-> fs, step |-> "skipped" ]
        ELSE Publish(fs, filePath, content, info, loaded.index, gpg, fault)

(***************************************************************************)
(* The source tree: a set of regular files [path, content], the path        *)
(* relative to the source root.  Its directories are the proper prefixes   *)
(* of the paths.                                                           *)
(***************************************************************************)

\* The bytes of a source file.
Bytes(n) == [ kind |-> "bytes", id |-> n ]

\* The number of distinct contents a source file may have.
NumContents == 2

\* The most files a source tree holds.
MaxFiles == 2

NameRaw1x == StrTerraformProvider \o << "a", "_", "v", "1", "_", "l", "_", "x" >>
NameZip1x == NameRaw1x \o StrZip
NameRaw2x == StrTerraformProvider \o << "a", "_", "v", "2", "_", "l", "_", "x" >>
NameBad   == StrTerraformProvider \o << "b", "a", "d" >>
NameOther == << "r", "e", "a", "d", "m", "e" >>
SubDir    == << "d" >>

\* The files source trees are made of: a raw binary whose content varies, a
\* prebuilt archive of the same version and platform in a subdirectory,
\* another version, a name the parser rejects in the subdirectory, and a
\* file that is no candidate.
SrcUniverse ==
    { [ path |-> << NameRaw1x >>, content |-> Bytes(n) ] : n \in 1..NumContents }
        \cup { [ path |-> << SubDir, NameZip1x >>, content |-> Bytes(1) ],
               [ path |-> << NameRaw2x >>, content |-> Bytes(1) ],
               [ path |-> << SubDir, NameBad >>, content |-> Bytes(1) ],
               [ path |-> << NameOther >>, content |-> Bytes(1) ] }

Trees ==
    { t \in SUBSET SrcUniverse :
        /\ Cardinality(t) <= MaxFiles
        /\ \A f, g \in t : f.path = g.path => f = g }

\* The sequence of the strings of a set, ascending.
RECURSIVE SortedNames(_)
SortedNames(names) ==
    IF names = {} THEN << >>
    ELSE LET least == CHOOSE n \in names : \A m \in names : ~StrLess(m, n)
         IN  << least >> \o SortedNames(names \ { least })

\* Whether the path lies under the directory.
Under(path, dir) == Len(path) > Len(dir) /\ SubSeq(path, 1, Len(dir)) = dir

\* os.ReadDir: the entries of the directory, sorted by file name.
ReadDir(tree, dir) ==
    SortedNames({ f.path[Len(dir) + 1] : f \in { g \in tree : Under(g.path, dir) } })

\* entry.IsDir(); the source root is a directory.
IsDirEntry(tree, path) == path = << >> \/ \E f \in tree : Under(f.path, path)

ContentAt(tree, path) == (CHOOSE f \in tree : f.path = path).content

\* The file names of a tree, as paths from the source root.
Names(tree) == { f.path : f \in tree }

\* The test processDirectory makes on a file's name.
IsCandidate(path) == HasPrefix(Base(path), StrTerraformProvider)

(***************************************************************************)
(* builder: Build and the walk of processDirectory, one entry at a time.   *)
(***************************************************************************)

\* What can go wrong while one file is processed: one library call fails,
\* or the key material of the environment is unusable.
Faults ==
    { "idx_read", "mkdir_target", "mkdir_versions",
      "pkg_open", "pkg_mkdir", "pkg_create", "pkg_header", "pkg_copy",
      "idx_mkdir", "idx_write", "sum_hash", "sum_write",
      "sign_read", "sign_sign", "sign_write", "dl_hash", "dl_write" }

Mishaps ==
    { [ gpg |-> "valid", fault |-> f ] : f \in Faults \cup { "none" } }
        \cup { [ gpg |-> g, fault |-> "none" ] : g \in GpgEnvs }

VARIABLES
    fs,        \* the destination tree; fs.log: the files the step just taken wrote, in order
    pc,        \* "idle"; "walk" while processDirectory runs; "failed" while it returns an error
    src,       \* the source tree of the running Build
    todo,      \* the entries processDirectory has yet to visit, in walk order
    outcome,   \* the file processProviderFile has just processed and the step it reached
    fresh,     \* the destination was empty when the running Build started
    rerun,     \* "same" or "changed" (contents) when the running Build walks the file names
               \* of the Build before it and that Build returned nil, else "no"
    result,    \* what the last Build returned: "none", "ok" or "error"
    last,      \* the source tree of the last Build, if it returned nil
    vi,        \* a versions index in memory, between its load and its persist
    merged,    \* the last call on vi, and the (version, os, arch) merged into vi
               \* since it was loaded, known when it was loaded empty
    parsed     \* the last call of ParseProviderFileName: its argument and what it returned

vars == << fs, pc, src, todo, outcome, fresh, rerun, result, last, vi, merged, parsed >>

NoOutcome == [ file |-> << >>, step |-> "none" ]

\* No versions index is in memory.
NoIndex == [ ID |-> << >>, Versions |-> << >>, loaded |-> FALSE ]

\* A call on the index in memory; the triple is that of an AddVersion.
Call(op, version, os, arch) ==
    [ op |-> op, Version |-> version, OS |-> os, Arch |-> arch ]

\* No call was made, and nothing is known of what was merged.
NoMerged ==
    [ known |-> FALSE, triples |-> {}, call |-> Call("none", << >>, << >>, << >>) ]

\* ParseProviderFileName was not called.
NoParsed == [ op |-> "none", filename |-> << >>, from |-> NoInfo, ret |-> [ err |-> TRUE, info |-> NoInfo ] ]

Init ==
    /\ fs = NoFs
    /\ pc = "idle"
    /\ src = {}
    /\ todo = << >>
    /\ outcome = NoOutcome
    /\ fresh = FALSE
    /\ rerun = "no"
    /\ result = "none"
    /\ last = {}
    /\ vi = NoIndex
    /\ merged = NoMerged
    /\ parsed = NoParsed

\* Build returns to its caller.
Return(err) ==
    /\ pc' = "idle"
    /\ src' = {}
    /\ todo' = << >>
    /\ outcome' = NoOutcome
    /\ fresh' = FALSE
    /\ rerun' = "no"
    /\ result' = IF err THEN "error" ELSE "ok"
    /\ last' = IF err THEN {} ELSE src
    /\ UNCHANGED << vi, merged, parsed >>

\* A Build that ensures the destination root before it looks at the source.
BuildNoSourceAfterEnsureDir ==
    /\ pc = "idle"
    /\ Return(TRUE)
    /\ fs' = EnsureDir(fs, << >>, FALSE).fs

\* Build on a source root that is missing or no directory: an error before
\* anything is created.
BuildNoSource ==
    /\ pc = "idle"
    /\ Return(TRUE)
    /\ UNCHANGED fs

\* Build: the destination root is ensured, then the source root is walked.
BuildStart ==
    /\ pc = "idle"
    /\ \E tree \in Trees, failed \in BOOLEAN :
         LET d == EnsureDir(fs, << >>, failed)
         IN  /\ fs' = d.fs
             /\ IF d.err THEN Return(TRUE)
                ELSE /\ pc' = "walk"
                     /\ src' = tree
                     /\ todo' = << << >> >>
                     /\ fresh' = (fs.dirs \subseteq { << >> } /\ DOMAIN fs.files = {})
                     /\ rerun' = IF result = "ok" /\ tree = last THEN "same"
                                 ELSE IF result = "ok" /\ Names(tree) = Names(last)
                                      THEN "changed"
                                 ELSE "no"
                     /\ result' = "none"
                     /\ last' = {}
                     /\ UNCHANGED << outcome, vi, merged, parsed >>

\* The entries of a directory as paths, in the order of os.ReadDir.
Entries(tree, dir) ==
    [ i \in 1..Len(ReadDir(tree, dir)) |-> Append(dir, ReadDir(tree, dir)[i]) ]

\* processDirectory reaches a directory: its entries come next; an error of
\* os.ReadDir is returned.
WalkDir ==
    /\ pc = "walk" /\ todo # << >>
    /\ IsDirEntry(src, Head(todo))
    /\ \E failed \in BOOLEAN :
         IF failed
         THEN pc' = "failed" /\ UNCHANGED todo
         ELSE pc' = "walk" /\ todo' = Entries(src, Head(todo)) \o Tail(todo)
    /\ fs' = ClearLog(fs)
    /\ outcome' = NoOutcome
    /\ UNCHANGED << src, fresh, rerun, result, last, vi, merged, parsed >>

\* processDirectory reaches a file that is no candidate.
WalkOther ==
    /\ pc = "walk" /\ todo # << >>
    /\ ~IsDirEntry(src, Head(todo))
    /\ ~IsCandidate(Head(todo))
    /\ todo' = Tail(todo)
    /\ fs' = ClearLog(fs)
    /\ outcome' = NoOutcome
    /\ UNCHANGED << pc, src, fresh, rerun, result, last, vi, merged, parsed >>

\* A walk that goes on to the next entry whatever processProviderFile returned.
AfterFileContinue(err) == pc' = "walk" /\ todo' = Tail(todo)

\* What processDirectory does with the error of processProviderFile: it
\* returns it at once, and goes on to the next entry when there is none.
AfterFile(err) ==
    IF err THEN pc' = "failed" /\ UNCHANGED todo
    ELSE pc' = "walk" /\ todo' = Tail(todo)

\* processDirectory reaches a candidate: processProviderFile.
WalkFile ==
    /\ pc = "walk" /\ todo # << >>
    /\ ~IsDirEntry(src, Head(todo))
    /\ IsCandidate(Head(todo))
    /\ \E m \in Mishaps :
         LET r == processProviderFile(ClearLog(fs), Head(todo),
                                      ContentAt(src, Head(todo)), m.gpg, m.fault)
         IN  /\ fs' = r.fs
             /\ outcome' = [ file |-> Head(todo), step |-> r.step ]
             /\ AfterFile(r.err)
    /\ UNCHANGED << src, fresh, rerun, result, last, vi, merged, parsed >>

\* The error of processDirectory is returned by Build.
BuildFail ==
    /\ pc = "failed"
    /\ Return(TRUE)
    /\ fs' = ClearLog(fs)

\* processDirectory of the source root returns nil, and so does Build.
BuildDone ==
    /\ pc = "walk" /\ todo = << >>
    /\ Return(FALSE)
    /\ fs' = ClearLog(fs)

Next ==
    \/ BuildNoSource \/ BuildStart
    \/ WalkDir \/ WalkOther \/ WalkFile
    \/ BuildFail \/ BuildDone

Spec == Init /\ [][Next]_vars

(***************************************************************************)
(* Builds of source roots that hold one file each, over more versions and  *)
(* platforms of one type: the destination as a sequence of such Builds     *)
(* makes it.                                                               *)
(***************************************************************************)

NameRaw1y  == StrTerraformProvider \o << "a", "_", "v", "1", "_", "l", "_", "y" >>
NameRaw10x == StrTerraformProvider \o << "a", "_", "v", "1", "0", "_", "l", "_", "x" >>

FileNames == { NameRaw1x, NameRaw1y, NameRaw2x, NameRaw10x }

\* What goes wrong in these Builds: the read and the write of the index, the
\* write of the checksums after it, and a signing key that is not set.
FileMishaps ==
    { m \in Mishaps :
        /\ m.fault \in { "none", "idx_read", "idx_write", "sum_write" }
        /\ m.gpg \in { "valid", "unset" } }

\* Build of a source root that holds the one file `name`: the destination
\* root is ensured, the root is read, the file is processed, and Build
\* returns what processProviderFile returned.
BuildFile ==
    /\ pc = "idle"
    /\ \E name \in FileNames, m \in FileMishaps :
         LET d == EnsureDir(ClearLog(fs), << >>, FALSE)
             r == processProviderFile(d.fs, << name >>, Bytes(1), m.gpg, m.fault)
         IN  /\ fs' = r.fs
             /\ outcome' = [ file |-> << name >>, step |-> r.step ]
             /\ result' = IF r.err THEN "error" ELSE "ok"
    /\ UNCHANGED << pc, src, todo, fresh, rerun, last, vi, merged, parsed >>

SpecFiles == Init /\ [][BuildFile]_vars

(***************************************************************************)
(* The same Builds over a destination whose versions index something else  *)
(* than the program has overwritten.                                       *)
(***************************************************************************)

\* Bytes that are no JSON.
Garbage == [ kind |-> "garbage" ]

\* The versions index of the type is overwritten from outside the program.
CorruptIndex ==
    /\ pc = "idle"
    /\ \E name \in FileNames :
         LET path == TargetVersionsIndexPath(ParseProviderFileName(<< name >>).info)
         IN  /\ IsFile(fs, path)
             /\ fs' = [ ClearLog(fs) EXCEPT !.files[path] = Garbage ]
    /\ outcome' = NoOutcome
    /\ UNCHANGED << pc, src, todo, fresh, rerun, result, last, vi, merged, parsed >>

SpecCorrupt == Init /\ [][BuildFile \/ CorruptIndex]_vars

(***************************************************************************)
(* Builds of one file each whose name the parser accepts with components   *)
(* that hold '_', or that are "." or "..".                                 *)
(***************************************************************************)

\* The arch holds '_'.
NameArchUnderscore == StrTerraformProvider \o << "a", "_", "v", "1", "_", "l", "_", "x", "_", "y" >>

\* The version is "..".
NameVersionDotDot == StrTerraformProvider \o << "a", "_", "v", ".", ".", "_", "l", "_", "x" >>

\* The type is "." and the version is "a".
NameTypeDot == StrTerraformProvider \o << ".", "_", "v", "a", "_", "l", "_", "x" >>

\* The type is "a" and the version is ".".
NameVersionDot == StrTerraformProvider \o << "a", "_", "v", ".", "_", "l", "_", "x" >>

OddNames ==
    { NameRaw1x, NameArchUnderscore, NameVersionDotDot, NameTypeDot, NameVersionDot }

\* What goes wrong in these Builds: a signing key that is not set.
OddMishaps == { m \in Mishaps : m.fault = "none" /\ m.gpg \in { "valid", "unset" } }

\* Build of a source root that holds the one file `name`.
BuildOdd ==
    /\ pc = "idle"
    /\ \E name \in OddNames, m \in OddMishaps :
         LET d == EnsureDir(ClearLog(fs), << >>, FALSE)
             r == processProviderFile(d.fs, << name >>, Bytes(1), m.gpg, m.fault)
         IN  /\ fs' = r.fs
             /\ outcome' = [ file |-> << name >>, step |-> r.step ]
             /\ result' = IF r.err THEN "error" ELSE "ok"
    /\ UNCHANGED << pc, src, todo, fresh, rerun, last, vi, merged, parsed >>

SpecOdd == Init /\ [][BuildOdd]_vars

(***************************************************************************)
(* CreateZipFromBinary by itself, on a binary with a timestamp and a mode   *)
(* of its own.                                                             *)
(***************************************************************************)

NameExe1x == NameRaw1x \o StrExe

\* The names of the binary: two raw binaries, one with ".exe", and a name the
\* parser rejects.
BinaryNames == { NameRaw1x, NameRaw2x, NameExe1x, NameBad }

\* The modification times of the binary.
BinaryTimes ==
    { ZeroTime, Time(1980, 1, 1, 0, 0, 0), Time(2024, 2, 29, 13, 59, 58),
      Time(2049, 1, 1, 0, 0, 0) }

\* The permission bits of the binary: 0644, 0755, 0600.
BinaryModes == { 420, 493, 384 }

\* The zipPath argument.
ZipOut == << << "o" >>, << "t", ".", "z", "i", "p" >> >>

\* The binary is there and the output file is not.
InitZip ==
    /\ fs = NoFs
    /\ pc = "idle"
    /\ src \in { { [ path |-> << name >>, content |-> Bytes(n), modTime |-> t, mode |-> m ] } :
                    name \in BinaryNames, n \in 1..NumContents,
                    t \in BinaryTimes, m \in BinaryModes }
    /\ todo = << >>
    /\ outcome = NoOutcome
    /\ fresh = FALSE
    /\ rerun = "no"
    /\ result = "none"
    /\ last = {}
    /\ vi = NoIndex
    /\ merged = NoMerged
    /\ parsed = NoParsed

\* CreateZipFromBinary(binaryPath, zipPath)
CreateZip ==
    /\ outcome = NoOutcome
    /\ \E f \in src, fault \in { "none", "pkg_mkdir", "pkg_create", "pkg_open",
                                  "pkg_header", "pkg_copy" } :
         LET r == CreateZipFromBinary(fs, f.path, f.content, ZipOut, fault)
         IN  /\ fs' = r.fs
             /\ outcome' = [ file |-> f.path, step |-> IF r.err THEN "dirs" ELSE "packaged" ]
             /\ result' = IF r.err THEN "error" ELSE "ok"
    /\ UNCHANGED << pc, src, todo, fresh, rerun, last, vi, merged, parsed >>

SpecZip == InitZip /\ [][CreateZip]_vars

(***************************************************************************)
(* Two workers that run processProviderFile at the same time, each on one   *)
(* artifact of the same type, against one destination, with no lock: the    *)
(* calls of each worker happen in the order of the code, and between two    *)
(* calls of one worker the other may make any of its own.  Here pc, todo    *)
(* and vi hold one value per worker: its position, its file and the        *)
(* versions index it has in memory.                                        *)
(***************************************************************************)

Workers == { 1, 2 }

\* Two different artifacts of one type, none of them in the destination.
InitWorkers ==
    /\ fs = NoFs
    /\ pc = << "start", "start" >>
    /\ src = {}
    /\ todo \in { << << n1 >>, << n2 >> >> : n1, n2 \in FileNames } \ { << << n >>, << n >> >> : n \in FileNames }
    /\ outcome = NoOutcome
    /\ fresh = TRUE
    /\ rerun = "no"
    /\ result = "none"
    /\ last = {}
    /\ vi = << NoIndex, NoIndex >>
    /\ merged = NoMerged
    /\ parsed = NoParsed

\* The metadata of the file of a worker.
WorkerInfo(w) == ParseProviderFileName(todo[w]).info

\* ReadVersionsIndex and the gate: the worker keeps the index it has read, or
\* returns nil when the index lists its version and platform.
WorkerLoad(w) ==
    /\ pc[w] = "start"
    /\ LET info   == WorkerInfo(w)
           loaded == ReadVersionsIndex(fs, TargetVersionsIndexPath(info), info.Type, "none")
       IN  /\ vi' = [ vi EXCEPT ![w] = loaded.index ]
           /\ pc' = [ pc EXCEPT ![w] = IF NeedsAdding(loaded.index, info)
                                        THEN "loaded" ELSE "skipped" ]
    /\ fs' = ClearLog(fs)
    /\ outcome' = [ file |-> todo[w], step |-> "parsed" ]
    /\ UNCHANGED << src, todo, fresh, rerun, result, last, merged, parsed >>

\* EnsureDir of the target and versions directories and the packaging.
WorkerPackage(w) ==
    /\ pc[w] = "loaded"
    /\ LET info == WorkerInfo(w)
           d1 == EnsureDir(ClearLog(fs), TargetDownloadPath(info), FALSE)
           d2 == EnsureDir(d1.fs, TargetVersionsDir(info), FALSE)
           zp == IF IsZipFile(todo[w])
                 THEN CopyFile(d2.fs, Bytes(1), TargetZipPath(info), "none")
                 ELSE CreateZipFromBinary(d2.fs, todo[w], Bytes(1), TargetZipPath(info), "none")
       IN  fs' = zp.fs
    /\ pc' = [ pc EXCEPT ![w] = "packaged" ]
    /\ outcome' = [ file |-> todo[w], step |-> "packaged" ]
    /\ UNCHANGED << src, todo, fresh, rerun, result, last, vi, merged, parsed >>

\* AddVersion on the index the worker has read, and WriteVersionsIndex.
WorkerPersist(w) ==
    /\ pc[w] = "packaged"
    /\ LET info == WorkerInfo(w)
           added == AddVersion(vi[w], info.Version, info.OS, info.Arch)
       IN  /\ vi' = [ vi EXCEPT ![w] = added ]
           /\ fs' = WriteVersionsIndex(ClearLog(fs), TargetVersionsIndexPath(info),
                                       added, "none").fs
    /\ pc' = [ pc EXCEPT ![w] = "indexed" ]
    /\ outcome' = [ file |-> todo[w], step |-> "indexed" ]
    /\ UNCHANGED << src, todo, fresh, rerun, result, last, merged, parsed >>

\* WriteSHA256SumsFile, SignFile and WriteDownloadIndex, and the return.
WorkerFinish(w) ==
    /\ pc[w] = "indexed"
    /\ \E m \in OddMishaps :
         LET info == WorkerInfo(w)
             sm == WriteSHA256SumsFile(ClearLog(fs), TargetZipPath(info),
                                       TargetSHASumsPath(info), m.fault)
             sg == SignFile(sm.fs, TargetSHASumsPath(info), TargetSigPath(info),
                            m.gpg, m.fault)
             dl == WriteDownloadIndex(sg.fs, TargetZipPath(info), TargetSHASumsPath(info),
                                      TargetSigPath(info), TargetDownloadIndexPath(info),
                                      m.gpg, m.fault)
         IN  IF sg.err
             THEN /\ fs' = sg.fs
                  /\ pc' = [ pc EXCEPT ![w] = "failed" ]
                  /\ outcome' = [ file |-> todo[w], step |-> "summed" ]
             ELSE /\ fs' = dl.fs
                  /\ pc' = [ pc EXCEPT ![w] = "done" ]
                  /\ outcome' = [ file |-> todo[w], step |-> "done" ]
    /\ UNCHANGED << src, todo, fresh, rerun, result, last, vi, merged, parsed >>

NextWorkers ==
    \E w \in Workers :
        WorkerLoad(w) \/ WorkerPackage(w) \/ WorkerPersist(w) \/ WorkerFinish(w)

SpecWorkers == InitWorkers /\ [][NextWorkers]_vars

\* The files of a tree in the order processDirectory reaches them, the
\* entries still to walk given.
RECURSIVE WalkFrom(_, _)
WalkFrom(tree, entries) ==
    IF entries = << >> THEN << >>
    ELSE IF IsDirEntry(tree, Head(entries))
         THEN WalkFrom(tree, Entries(tree, Head(entries)) \o Tail(entries))
         ELSE << Head(entries) >> \o WalkFrom(tree, Tail(entries))

\* The files of a tree in walk order.
WalkOrder(tree) == WalkFrom(tree, << << >> >>)

(***************************************************************************)
(* Builds over arrangements: the same files, each at the source root or in *)
(* a subdirectory that sorts before or after the candidates' names.  The   *)
(* walk goes one entry at a time, and every call on a candidate succeeds.  *)
(***************************************************************************)

\* A directory name that os.ReadDir lists after "terraform-provider-...".
LateDir == << "u" >>

ArrangeNames == { NameRaw1x, NameZip1x, NameRaw1y, NameRaw2x, NameOther }

ArrangeDirs == { << >>, << SubDir >>, << LateDir >> }

\* The source trees of at most MaxFiles files with different base names.
Arrangements ==
    { t \in SUBSET { [ path |-> Append(dir, name), content |-> Bytes(1) ] :
                       dir \in ArrangeDirs, name \in ArrangeNames } :
        /\ Cardinality(t) <= MaxFiles
        /\ \A f, g \in t : Base(f.path) = Base(g.path) => f = g }

\* processDirectory over the files still to reach, in walk order: a file
\* that is no candidate is passed over, and the first error is returned.
RECURSIVE ProcessAll(_, _, _)
ProcessAll(f, tree, paths) ==
    IF paths = << >> THEN [ err |-> FALSE, fs |-> f ]
    ELSE IF ~IsCandidate(Head(paths)) THEN ProcessAll(f, tree, Tail(paths))
    ELSE LET r == processProviderFile(ClearLog(f), Head(paths),
                                      ContentAt(tree, Head(paths)), "valid", "none")
         IN  IF r.err THEN [ err |-> TRUE, fs |-> r.fs ]
             ELSE ProcessAll(r.fs, tree, Tail(paths))

\* Build of a source tree on a destination, every call succeeding.
BuildOf(f, tree) ==
    ProcessAll(EnsureDir(f, << >>, FALSE).fs, tree,
               WalkFrom(tree, << << >> >>))

\* The destinations the Builds start on: an empty one, and one that holds
\* terraform-provider-a_v1_l_y already.
PreparedFs ==
    ClearLog(BuildOf(NoFs, { [ path |-> << NameRaw1y >>, content |-> Bytes(1) ] }).fs)

InitArrange ==
    /\ fresh \in BOOLEAN
    /\ fs = IF fresh THEN NoFs ELSE PreparedFs
    /\ pc = "idle"
    /\ src \in Arrangements
    /\ todo = << >>
    /\ outcome = NoOutcome
    /\ rerun = "no"
    /\ result = "none"
    /\ last = {}
    /\ vi = NoIndex
    /\ merged = NoMerged
    /\ parsed = NoParsed

\* Build: the destination root is ensured, then the source root is walked.
ArrangeStart ==
    /\ pc = "idle"
    /\ result = "none"
    /\ fs' = EnsureDir(fs, << >>, FALSE).fs
    /\ pc' = "walk"
    /\ todo' = << << >> >>
    /\ UNCHANGED << src, outcome, fresh, rerun, result, last, vi, merged, parsed >>

\* processDirectory reaches a candidate: processProviderFile, every call of
\* which succeeds.
ArrangeFile ==
    /\ pc = "walk" /\ todo # << >>
    /\ ~IsDirEntry(src, Head(todo))
    /\ IsCandidate(Head(todo))
    /\ LET r == processProviderFile(ClearLog(fs), Head(todo),
                                    ContentAt(src, Head(todo)), "valid", "none")
       IN  /\ fs' = r.fs
           /\ outcome' = [ file |-> Head(todo), step |-> r.step ]
           /\ AfterFile(r.err)
    /\ UNCHANGED << src, fresh, rerun, result, last, vi, merged, parsed >>

\* The walk is over: Build returns nil.  The source tree stays known.
ArrangeDone ==
    /\ pc = "walk" /\ todo = << >>
    /\ pc' = "done"
    /\ result' = "ok"
    /\ fs' = ClearLog(fs)
    /\ outcome' = NoOutcome
    /\ UNCHANGED << src, todo, fresh, rerun, last, vi, merged, parsed >>

NextArrange == ArrangeStart \/ WalkDir \/ WalkOther \/ ArrangeFile \/ ArrangeDone

SpecArrange == InitArrange /\ [][NextArrange]_vars

(***************************************************************************)
(* The versions index by itself: loads, AddVersion calls and persists in   *)
(* any order, on the index file of one type, which starts missing, empty   *)
(* or holding version entries without duplicates, in any order.            *)
(***************************************************************************)

IndexType == << "a" >>

IndexPath == Join(<< IndexType, StrVersions, StrIndexJson >>)

\* The version strings merged: as numbers 1 < 2 < 10, as strings "1" < "10" < "2".
VersionNames == { << "1" >>, << "1", "0" >>, << "2" >> }

PlatformSet == { Platform(<< "l" >>, << "x" >>), Platform(<< "l" >>, << "y" >>) }

\* The most version entries the index file starts with.
MaxStart == 2

\* The sequences of 1..n different elements of a set.
SeqsNoDup(S, n) ==
    { s \in UNION { [ 1..k -> S ] : k \in 1..n } :
        \A i, j \in 1..Len(s) : s[i] = s[j] => i = j }

\* The version entries an index file starts with: no version twice, no
\* platform twice in an entry, in any order.
StartVersions ==
    { << >> } \cup
    UNION { { [ i \in 1..Len(vs) |-> VersionInfo(vs[i], ps[i]) ] :
                ps \in [ 1..Len(vs) -> SeqsNoDup(PlatformSet, Cardinality(PlatformSet)) ] } :
            vs \in SeqsNoDup(VersionNames, MaxStart) }

\* A destination that holds the index file with the content.
StartDisk(content) ==
    [ dirs  |-> Prefixes(Dir(IndexPath)),
      files |-> [ q \in { IndexPath } |-> content ],
      log   |-> << >> ]

InitIndex ==
    /\ fs \in { NoFs, StartDisk(EmptyFile) } \cup
              { StartDisk(MarshalVersionsIndex(VersionsIndex(IndexType, s))) :
                  s \in StartVersions }
    /\ pc = "idle"
    /\ src = {}
    /\ todo = << >>
    /\ outcome = NoOutcome
    /\ fresh = FALSE
    /\ rerun = "no"
    /\ result = "none"
    /\ last = {}
    /\ vi = NoIndex
    /\ merged = NoMerged
    /\ parsed = NoParsed

\* ReadVersionsIndex of the index file.
LoadIndex ==
    /\ \E fault \in { "none", "idx_read" } :
         LET r == ReadVersionsIndex(fs, IndexPath, IndexType, fault)
         IN  IF r.err THEN UNCHANGED << vi, merged >>
             ELSE /\ vi' = r.index
                  /\ merged' = [ known   |-> r.index.Versions = << >>,
                                 triples |-> {},
                                 call    |-> Call("load", << >>, << >>, << >>) ]
    /\ UNCHANGED << fs, pc, src, todo, outcome, fresh, rerun, result, last, parsed >>

\* AddVersion on the index in memory.
MergeVersion ==
    /\ vi # NoIndex
    /\ \E v \in VersionNames, p \in PlatformSet :
         /\ vi' = AddVersion(vi, v, p.OS, p.Arch)
         /\ merged' = [ known   |-> merged.known,
                        triples |-> IF merged.known
                                    THEN merged.triples \cup
                                           { [ Version |-> v, OS |-> p.OS, Arch |-> p.Arch ] }
                                    ELSE {},
                        call    |-> Call("AddVersion", v, p.OS, p.Arch) ]
    /\ UNCHANGED << fs, pc, src, todo, outcome, fresh, rerun, result, last, parsed >>

\* WriteVersionsIndex of the index in memory.
PersistIndex ==
    /\ vi # NoIndex
    /\ \E fault \in { "none", "idx_mkdir", "idx_write" } :
         fs' = ClearLog(WriteVersionsIndex(fs, IndexPath, vi, fault).fs)
    /\ merged' = [ merged EXCEPT !.call = Call("persist", << >>, << >>, << >>) ]
    /\ UNCHANGED << pc, src, todo, outcome, fresh, rerun, result, last, vi, parsed >>

SpecIndex == InitIndex /\ [][LoadIndex \/ MergeVersion \/ PersistIndex]_vars

(***************************************************************************)
(* The name parser by itself: ParseProviderFileName on file names put       *)
(* together from a prefix, four components, their separators and a suffix,  *)
(* each right or wrong, and on the archive names derived from metadata.     *)
(***************************************************************************)

NamePrefixes == { StrTerraformProvider, << "t", "e", "r", "r", "a", "f", "o", "r", "m", "-", "p", "r", "o", "v", "i", "d", "e", "r" >>, << >> }

\* Components with and without the characters the pattern delimits them by.
NameTypes == { << >>, << "a" >>, << "a", "_", "b" >>, << "a", "-", "b" >>, << "a", "_", "v", "b" >> }

NameVersions == { << >>, << "1" >>, << "1", ".", "0" >>, << "1", "_", "0" >> }

NameOSs == { << >>, << "l" >>, << "l", "_", "m" >> }

NameArchs == { << >>, << "x" >>, << "x", "_", "y" >>, << "x", "-", "y" >>, << "x", ".", "y" >> }

\* What stands between the type and the version.
NameSeparators == { StrUnderscoreV, << "-", "v" >>, StrUnderscore }

NameSuffixes == { << >>, StrExe, StrZip, StrExe \o StrZip, StrZip \o StrExe, << ".", "t", "a", "r" >> }

\* The directories a file name is given under.
NameDirs == { << >>, << << "d" >> >> }

\* The metadata an archive name is derived from.
MetaTypes == { << "a" >>, << "a", ".", "b" >>, << "v" >>, << "a", "_", "b" >>, << "a", "-", "b" >>, << >> }

MetaVersions == { << "1" >>, << "1", ".", "0" >>, << "1", "-", "b" >>, << "v", "1" >>, << "1", "_", "0" >>, << >> }

MetaOSs == { << "l" >>, << "l", "-", "m" >>, << "v" >>, << "l", "_", "m" >>, << >> }

MetaArchs == { << "x" >>, << "x", "-", "y" >>, << "e", "x", "e" >>, << "x", "_", "y" >>, << "x", ".", "y" >>, << >> }

Metadata ==
    { [ Type |-> t, Version |-> v, OS |-> o, Arch |-> a, Ext |-> x ] :
        t \in MetaTypes, v \in MetaVersions, o \in MetaOSs, a \in MetaArchs,
        x \in { << >>, StrExe } }

\* A component holds no delimiter of the pattern: no '_', the type no '-', the
\* arch no '.'; and it holds something.
DelimiterFree(p) ==
    /\ p.Type # << >> /\ NoChar(p.Type, "_") /\ NoChar(p.Type, "-")
    /\ p.Version # << >> /\ NoChar(p.Version, "_")
    /\ p.OS # << >> /\ NoChar(p.OS, "_")
    /\ p.Arch # << >> /\ NoChar(p.Arch, "_") /\ NoChar(p.Arch, ".")

\* The file names ParseProviderFileName is given.
FileNameArguments ==
    { dir \o << pre \o t \o sep \o v \o StrUnderscore \o o \o StrUnderscore \o a \o x >> :
        dir \in NameDirs, pre \in NamePrefixes, t \in NameTypes, sep \in NameSeparators,
        v \in NameVersions, o \in NameOSs, a \in NameArchs, x \in NameSuffixes }

\* No call yet: the argument is a file name, or metadata whose components
\* hold no delimiter.
InitNames ==
    /\ fs = NoFs
    /\ pc = "idle"
    /\ src = {}
    /\ todo = << >>
    /\ outcome = NoOutcome
    /\ fresh = FALSE
    /\ rerun = "no"
    /\ result = "none"
    /\ last = {}
    /\ vi = NoIndex
    /\ merged = NoMerged
    /\ parsed \in { [ NoParsed EXCEPT !.op = "name", !.filename = f ] :
                      f \in FileNameArguments }
               \cup { [ NoParsed EXCEPT !.op = "metadata", !.from = p ] :
                        p \in { q \in Metadata : DelimiterFree(q) } }

\* ParseProviderFileName(filename)
ParseName ==
    /\ parsed.op = "name"
    /\ parsed' = [ parsed EXCEPT !.op = "parse",
                                 !.ret = ParseProviderFileName(parsed.filename) ]
    /\ UNCHANGED << fs, pc, src, todo, outcome, fresh, rerun, result, last, vi, merged >>

\* ParseProviderFileName(p.TargetZipFileName())
ParseDerived ==
    /\ parsed.op = "metadata"
    /\ parsed' = [ parsed EXCEPT
                     !.op = "derive",
                     !.filename = << TargetZipFileName(parsed.from) >>,
                     !.ret = ParseProviderFileName(<< TargetZipFileName(parsed.from) >>) ]
    /\ UNCHANGED << fs, pc, src, todo, outcome, fresh, rerun, result, last, vi, merged >>

SpecNames == InitNames /\ [][ParseName \/ ParseDerived]_vars

(***************************************************************************)
(* The vocabulary of the properties.                                       *)
(***************************************************************************)

Parses(path) == ~ParseProviderFileName(path).err

InfoOf(path) == ParseProviderFileName(path).info

\* The (type, version, os, arch) combinations of the candidates source trees
\* are made of.
Infos ==
    { InfoOf(f.path) : f \in { g \in SrcUniverse : Parses(g.path) } }
        \cup { InfoOf(<< name >>) : name \in FileNames }

\* The persisted versions index of the type of p lists the version of p with
\* the platform of p.
Listed(f, p) ==
    LET path == TargetVersionsIndexPath(p)
    IN  /\ IsFile(f, path)
        /\ f.files[path].kind = "json"
        /\ \E i \in 1..Len(f.files[path].value.Versions) :
              /\ f.files[path].value.Versions[i].Version = p.Version
              /\ HasPlatform(f.files[path].value.Versions[i].Platforms, p.OS, p.Arch)

\* The version entries of the persisted versions index of the type of p.
PersistedVersions(f, p) ==
    LET path == TargetVersionsIndexPath(p)
    IN  IF IsFile(f, path) /\ f.files[path].kind = "json"
        THEN f.files[path].value.Versions
        ELSE << >>

\* The (version, protocols, platform) triples of a sequence of version entries.
Triples(versions) ==
    UNION { { [ Version   |-> versions[i].Version,
                Protocols |-> versions[i].Protocols,
                Platform  |-> versions[i].Platforms[j] ] :
              j \in 1..Len(versions[i].Platforms) } :
            i \in 1..Len(versions) }

\* The archive of p is there and whole: the copy of a prebuilt archive, or a
\* zip of the one entry with the bytes of a binary.
HasWholeArchive(f, p) ==
    /\ IsFile(f, TargetZipPath(p))
    /\ \E n \in 1..NumContents :
          f.files[TargetZipPath(p)]
              \in { Bytes(n), ZipArchive(<< ZipEntry(InnerZipFileName(p), Bytes(n)) >>) }

\* The files processProviderFile writes for p, in the order of its steps:
\* archive, versions index, checksum manifest, signature, download manifest.
WriteOrder(p) ==
    << TargetZipPath(p), TargetVersionsIndexPath(p), TargetSHASumsPath(p),
       TargetSigPath(p), TargetDownloadIndexPath(p) >>

\* processProviderFile returned an error.
Failed(o) == o.step \notin { "none", "skipped", "done" }

\* The candidates the walk has not reached.
Unreached == { f \in src : IsCandidate(f.path) /\
                 \E i \in 2..Len(todo) : todo[i] = f.path \/ Under(f.path, todo[i]) }

\* The four files of the platform directory of p.
Outputs(p) ==
    { TargetZipPath(p), TargetSHASumsPath(p), TargetSigPath(p),
      TargetDownloadIndexPath(p) }

\* The files the step just taken wrote.
Wrote(f) == { f.log[i] : i \in 1..Len(f.log) }

\* The archive packaging makes of a source file.
Packaged(path, content) ==
    IF IsZipFile(path) THEN content
    ELSE ZipArchive(<< ZipEntry(InnerZipFileName(InfoOf(path)), content) >>)

(***************************************************************************)
(* Properties.                                                             *)
(***************************************************************************)

\* C1: when Build is run again over a source tree of the same file names,
\* after a Build that returned nil, no step of the second run changes the
\* content of any file of the destination, also when the content of a
\* source file changed between the runs.
C1_SecondRunLeavesFilesIdentical ==
    [][rerun' # "no" => fs'.files = fs.files]_vars

\* A second run has skipped a candidate whose content changed since the
\* first run, and has walked the whole tree.
C1_Witness ==
    /\ rerun = "changed"
    /\ pc = "walk" /\ todo = << >>
    /\ outcome.step = "skipped"
    /\ IsFile(fs, TargetZipPath(InfoOf(outcome.file)))
    /\ fs.files[TargetZipPath(InfoOf(outcome.file))]
           # Packaged(outcome.file, ContentAt(src, outcome.file))

C4_GateBeforeEveryWrite ==
    [][( /\ pc = "walk" /\ todo # << >>
         /\ outcome'.file = Head(todo) /\ outcome'.step # "none" )
       => /\ ( Parses(Head(todo)) /\ Listed(fs, InfoOf(Head(todo))) )
               => outcome'.step \in { "skipped", "parsed" }
          /\ outcome'.step = "skipped"
               => /\ pc' = "walk"
                  /\ fs'.dirs = fs.dirs
                  /\ fs'.files = fs.files
                  /\ fs'.log = << >>]_vars

\* A candidate was skipped in a destination that holds its files.
C4_Witness ==
    /\ pc = "walk"
    /\ outcome.step = "skipped"
    /\ Listed(fs, InfoOf(outcome.file))
    /\ Outputs(InfoOf(outcome.file)) \subseteq DOMAIN fs.files
    /\ fs.log = << >>

\* C5: when Build is about to return nil after a walk that started on an
\* empty destination, every candidate of the source tree, at any depth, is
\* listed by the versions index of its type and has its archive, checksum
\* manifest, signature and download manifest.
C5_FreshBuildPublishesEveryCandidate ==
    ( pc = "walk" /\ todo = << >> /\ fresh )
        => \A f \in src :
             IsCandidate(f.path)
                 => /\ Parses(f.path)
                    /\ Listed(fs, InfoOf(f.path))
                    /\ Outputs(InfoOf(f.path)) \subseteq DOMAIN fs.files

\* The walk of a tree of two candidates, one of them in a subdirectory, has
\* ended without an error on a destination that was empty.
C5_Witness ==
    /\ pc = "walk" /\ todo = << >> /\ fresh
    /\ Names(src) = { << SubDir, NameZip1x >>, << NameRaw2x >> }

\* C6: an archive that is whole stands at the archive path of every (version,
\* os, arch) a persisted versions index lists; processProviderFile writes
\* the index right after the archive, and the checksum manifest and the
\* signature only after the index.
C6_ListedHasArchive ==
    \A p \in Infos :
        /\ Listed(fs, p) => HasWholeArchive(fs, p)
        /\ TargetVersionsIndexPath(p) \in Wrote(fs)
               => /\ Len(fs.log) >= 2
                  /\ fs.log[2] = TargetVersionsIndexPath(p)
                  /\ \E q \in Infos : fs.log[1] = TargetZipPath(q) /\ HasWholeArchive(fs, q)
        /\ ( TargetSHASumsPath(p) \in Wrote(fs) \/ TargetSigPath(p) \in Wrote(fs) )
               => /\ Len(fs.log) >= 3
                  /\ fs.log[1] = TargetZipPath(p)
                  /\ fs.log[2] = TargetVersionsIndexPath(p)

\* The checksum step has failed: the index lists the version and platform,
\* the archive is there and the checksum manifest is not.
C6_Witness ==
    /\ pc = "failed"
    /\ outcome.step = "indexed"
    /\ Listed(fs, InfoOf(outcome.file))
    /\ HasWholeArchive(fs, InfoOf(outcome.file))
    /\ ~IsFile(fs, TargetSHASumsPath(InfoOf(outcome.file)))

\* C7, as the specification states it: only completed artifacts are visible,
\* so a (type, version, os, arch) of which the destination holds an index
\* entry or a file has its index entry and all its four files.
C7_OnlyCompletedArtifactsVisible ==
    \A p \in Infos :
        ( Listed(fs, p) \/ Outputs(p) \cap DOMAIN fs.files # {} )
            => ( Listed(fs, p) /\ Outputs(p) \subseteq DOMAIN fs.files )

\* C7, amended: processProviderFile persists its outputs step by step, in the
\* order archive, index, checksum manifest, signature, download manifest.
\* What it wrote are the files of the steps that succeeded, and they stay in
\* the destination when a later step fails; a failed packaging step writes
\* nothing or leaves an archive that is not whole.
C7_EffectsPersistStepByStep ==
    ( outcome.step # "none" /\ Parses(outcome.file) )
        => LET p == InfoOf(outcome.file)
               n == Len(fs.log)
           IN  /\ fs.log = SubSeq(WriteOrder(p), 1, n)
               /\ \A i \in 1..n : IsFile(fs, fs.log[i])
               /\ Failed(outcome) <=> pc = "failed"
               /\ outcome.step \in { "parsed", "skipped", "gate" } => n = 0
               /\ outcome.step = "dirs" => n = 0 \/ ( n = 1 /\ ~HasWholeArchive(fs, p) )
               /\ outcome.step = "packaged" => n = 1 /\ HasWholeArchive(fs, p)
               /\ outcome.step = "indexed" => n = 2 /\ Listed(fs, p)
               /\ outcome.step = "summed" => n = 3
               /\ outcome.step = "signed" => n = 4
               /\ outcome.step = "done" => n = 5

\* The download manifest could not be written: the archive, the index entry,
\* the checksum manifest and the signature of the file are in the destination.
C7_Witness ==
    /\ pc = "failed"
    /\ outcome.step = "signed"
    /\ Len(fs.log) = 4
    /\ Listed(fs, InfoOf(outcome.file))
    /\ ~IsFile(fs, TargetDownloadIndexPath(InfoOf(outcome.file)))

\* C8, as the specification states it: when Build is about to return nil,
\* every candidate of the source tree has its archive, checksum manifest,
\* signature and download manifest, whatever an earlier failed run left of it.
C8_PartialArtifactIsCompleted ==
    ( pc = "walk" /\ todo = << >> )
        => \A f \in src :
             ( IsCandidate(f.path) /\ Parses(f.path) )
                 => Outputs(InfoOf(f.path)) \subseteq DOMAIN fs.files

C10_ManifestAfterSignature ==
    /\ \A p \in Infos :
          /\ IsFile(fs, TargetDownloadIndexPath(p))
                 => IsFile(fs, TargetSHASumsPath(p)) /\ IsFile(fs, TargetSigPath(p))
          /\ TargetDownloadIndexPath(p) \in Wrote(fs) => fs.log = WriteOrder(p)
    /\ outcome.step = "summed"
          => /\ pc = "failed"
             /\ ~IsFile(fs, TargetSigPath(InfoOf(outcome.file)))
             /\ ~IsFile(fs, TargetDownloadIndexPath(InfoOf(outcome.file)))

\* Signing has failed: the checksum manifest is there, the signature and the
\* download manifest are not.
C10_Witness ==
    /\ pc = "failed"
    /\ outcome.step = "summed"
    /\ IsFile(fs, TargetSHASumsPath(InfoOf(outcome.file)))
    /\ ~IsFile(fs, TargetSigPath(InfoOf(outcome.file)))

\* C11: when the versions index of the type of a file is there, is not
\* empty and cannot be parsed, the Build of the file fails at the load of
\* the index, and leaves the index and every other file and directory of
\* the destination as they were.
C11_CorruptIndexStopsTheFile ==
    [][( /\ outcome'.step # "none"
         /\ IsFile(fs, TargetVersionsIndexPath(InfoOf(outcome'.file)))
         /\ fs.files[TargetVersionsIndexPath(InfoOf(outcome'.file))] # EmptyFile
         /\ UnmarshalVersionsIndex(
                fs.files[TargetVersionsIndexPath(InfoOf(outcome'.file))]).err )
       => /\ outcome'.step = "parsed"
          /\ result' = "error"
          /\ fs'.files = fs.files
          /\ fs'.dirs = fs.dirs
          /\ fs'.log = << >>]_vars

\* A Build has failed at the load of an index that is no JSON, in a
\* destination that holds the archive of an earlier Build.
C11_Witness ==
    /\ outcome.step = "parsed"
    /\ result = "error"
    /\ fs.files[TargetVersionsIndexPath(InfoOf(outcome.file))] = Garbage
    /\ \E p \in Infos : IsFile(fs, TargetZipPath(p))

\* C12: a Build that returns without a walk, as the one on a source root
\* that is missing or no directory does, returns an error and leaves the
\* destination as it was: no directory, not even the destination root, and
\* no file is created or changed.
C12_NoSourceNoEffect ==
    [][( pc = "idle" /\ pc' = "idle" ) => ( result' = "error" /\ fs' = fs )]_vars

\* A Build has returned an error and the destination root is not there.
C12_Witness ==
    /\ pc = "idle"
    /\ result = "error"
    /\ fs.dirs = {}

(***************************************************************************)
(* The versions index by itself (SpecIndex).                               *)
(***************************************************************************)

\* The version entries of the index file as it is on disk.
DiskVersions ==
    IF IsFile(fs, IndexPath) /\ fs.files[IndexPath].kind = "json"
    THEN fs.files[IndexPath].value.Versions
    ELSE << >>

\* No two entries have the same version string.
UniqueVersions(versions) ==
    \A i, j \in 1..Len(versions) : versions[i].Version = versions[j].Version => i = j

\* No entry lists an (os, arch) pair twice.
UniquePlatforms(versions) ==
    \A n \in 1..Len(versions) :
        \A i, j \in 1..Len(versions[n].Platforms) :
            versions[n].Platforms[i] = versions[n].Platforms[j] => i = j

\* Each entry's version string is not less, byte by byte, than the next one's.
Descending(versions) ==
    \A i \in 1..Len(versions) - 1 :
        ~ StrLess(versions[i].Version, versions[i + 1].Version)

\* The version strings of the entries, in their order.
VersionsOf(versions) == [ i \in 1..Len(versions) |-> versions[i].Version ]

\* C13: after any sequence of loads, AddVersion calls and persists on an index
\* that started missing, empty or without duplicates, no two entries have the
\* same version string, in memory and in the index file.
C13_VersionsUnique ==
    UniqueVersions(vi.Versions) /\ UniqueVersions(DiskVersions)

\* An index, loaded with entries, to which AddVersion has just given a version
\* it already had, and another version before that.
C13_Witness ==
    /\ merged.call.op = "AddVersion"
    /\ Len(vi.Versions) = 3
    /\ \E i \in 1..3 : /\ vi.Versions[i].Version = merged.call.Version
                        /\ Len(vi.Versions[i].Platforms) = 2
                        /\ vi.Versions[i].Platforms[2]
                             = Platform(merged.call.OS, merged.call.Arch)

\* C14: after any sequence of AddVersion calls, each (os, arch) pair appears
\* at most once in the platform list of every version entry.
C14_PlatformsUnique ==
    UniquePlatforms(vi.Versions) /\ UniquePlatforms(DiskVersions)

\* AddVersion was just called with a platform its entry already listed first
\* of two.
C14_Witness ==
    /\ merged.call.op = "AddVersion"
    /\ \E i \in 1..Len(vi.Versions) :
          /\ vi.Versions[i].Version = merged.call.Version
          /\ Len(vi.Versions[i].Platforms) = 2
          /\ vi.Versions[i].Platforms[1] = Platform(merged.call.OS, merged.call.Arch)

MergedPlatforms(version) ==
    { Platform(t.OS, t.Arch) : t \in { u \in merged.triples : u.Version = version } }

\* C16: starting from an empty index, after merging any sequence of triples the
\* index has exactly one entry per distinct version merged, each with exactly the
\* distinct platforms merged for it, the larger version string first.
C16_ExactlyTheMerged ==
    merged.known =>
        /\ { vi.Versions[i].Version : i \in 1..Len(vi.Versions) }
             = { t.Version : t \in merged.triples }
        /\ Len(vi.Versions) = Cardinality({ t.Version : t \in merged.triples })
        /\ \A i \in 1..Len(vi.Versions) :
              LET e == vi.Versions[i]
              IN  /\ { e.Platforms[j] : j \in 1..Len(e.Platforms) }
                       = MergedPlatforms(e.Version)
                  /\ Len(e.Platforms) = Cardinality(MergedPlatforms(e.Version))
                  /\ e.Protocols = Protocols
        /\ Descending(vi.Versions)

\* The example: ("1", x), ("1", y) and ("2", x) were merged into an empty index.
C16_Witness ==
    /\ merged.known
    /\ merged.triples = { [ Version |-> << "1" >>, OS |-> << "l" >>, Arch |-> << "x" >> ],
                          [ Version |-> << "1" >>, OS |-> << "l" >>, Arch |-> << "y" >> ],
                          [ Version |-> << "2" >>, OS |-> << "l" >>, Arch |-> << "x" >> ] }
    /\ VersionsOf(vi.Versions) = << << "2" >>, << "1" >> >>
    /\ Len(vi.Versions[1].Platforms) = 1
    /\ Len(vi.Versions[2].Platforms) = 2

\* The entries hold the triple of the call.
ContainsTriple(versions, call) ==
    \E i \in 1..Len(versions) :
        /\ versions[i].Version = call.Version
        /\ HasPlatform(versions[i].Platforms, call.OS, call.Arch)

\* The step is an AddVersion call with a triple the index already contains.
AddsContained ==
    /\ merged'.call.op = "AddVersion"
    /\ ContainsTriple(vi.Versions, merged'.call)

\* C17 as stated: AddVersion with a triple the index already contains leaves
\* the index unchanged, the order of its entries included.
C17_ContainedTripleChangesNothing ==
    [][ AddsContained => vi' = vi ]_vars

\* C17: AddVersion with a triple the index already contains keeps the entries,
\* their protocols and their platforms, and leaves them in descending order; the
\* index is unchanged when its entries were in descending order, as they are
\* after any AddVersion call, so the same call twice gives what it gives once.
C17_ContainedTripleOnlySorts ==
    [][ AddsContained =>
          /\ vi'.ID = vi.ID
          /\ Len(vi'.Versions) = Len(vi.Versions)
          /\ { vi'.Versions[i] : i \in 1..Len(vi'.Versions) }
               = { vi.Versions[i] : i \in 1..Len(vi.Versions) }
          /\ Descending(vi'.Versions)
          /\ Descending(vi.Versions) => vi' = vi
          /\ merged.call = merged'.call => vi' = vi
      ]_vars

\* An index loaded from a file that lists "1" before "2", after AddVersion
\* calls with triples it contained only: the entries of the file, "2" first.
C17_Witness ==
    /\ merged.call.op = "AddVersion"
    /\ ContainsTriple(DiskVersions, merged.call)
    /\ VersionsOf(DiskVersions) = << << "1" >>, << "2" >> >>
    /\ vi.Versions = << DiskVersions[2], DiskVersions[1] >>

(***************************************************************************)
(* The name parser by itself (SpecNames).                                  *)
(***************************************************************************)

\* C18: for metadata whose components hold no delimiter, parsing the archive
\* name derived from it succeeds and gives its type, version, os and arch back.
C18_DerivedNameParsesBack ==
    parsed.op = "derive" =>
        /\ ~ parsed.ret.err
        /\ parsed.ret.info.Type = parsed.from.Type
        /\ parsed.ret.info.Version = parsed.from.Version
        /\ parsed.ret.info.OS = parsed.from.OS
        /\ parsed.ret.info.Arch = parsed.from.Arch

\* The archive name of type "a.b", version "v1", os "v", arch "exe" was parsed:
\* components that look like the separator before the version and like a suffix.
C18_Witness ==
    /\ parsed.op = "derive"
    /\ parsed.from.Type = << "a", ".", "b" >>
    /\ parsed.from.Version = << "v", "1" >>
    /\ parsed.from.OS = << "v" >>
    /\ parsed.from.Arch = << "e", "x", "e" >>
    /\ parsed.ret.info.Arch = << "e", "x", "e" >>

\* The base name of the argument of the call.
ParsedName == parsed.filename[Len(parsed.filename)]

\* A name without the prefix and without its ".exe" or ".zip".
Stem(s) ==
    LET rest == SubSeq(s, Len(StrTerraformProvider) + 1, Len(s))
    IN  TrimSuffix(TrimSuffix(rest, StrExe), StrZip)

\* C19 as stated: for every name the parser accepts, type, version, os and arch
\* hold no '_', the type no '-' and the arch no '.', so that the name splits at
\* its underscores into exactly the parsed components.
C19_ComponentsHoldNoDelimiter ==
    (parsed.op = "parse" /\ ~ parsed.ret.err) =>
        LET p == parsed.ret.info
        IN  /\ NoChar(p.Type, "_") /\ NoChar(p.Type, "-")
            /\ NoChar(p.Version, "_")
            /\ NoChar(p.OS, "_")
            /\ NoChar(p.Arch, "_") /\ NoChar(p.Arch, ".")
            /\ SplitUnderscore(Stem(ParsedName))
                 = << p.Type, << "v" >> \o p.Version, p.OS, p.Arch >>

\* The positions of the underscores of a name.
Underscores(s) == { i \in 1..Len(s) : s[i] = "_" }

\* s is terraform-provider-<t>_v<v>_<o>_<a> followed by x, with components as
\* the pattern delimits them: none empty, no '-' in the type, no '_' in the
\* version and in the os, no '.' in the arch.
Fits(s, t, v, o, a, x) ==
    /\ s = StrTerraformProvider \o t \o StrUnderscoreV \o v
             \o StrUnderscore \o o \o StrUnderscore \o a \o x
    /\ t # << >> /\ NoChar(t, "-")
    /\ v # << >> /\ NoChar(v, "_")
    /\ o # << >> /\ NoChar(o, "_")
    /\ a # << >> /\ NoChar(a, ".")

\* s has the form of a provider file name, followed by nothing, ".exe" or ".zip".
HasForm(s) ==
    \E i, j, k \in Underscores(s), x \in { << >>, StrExe, StrZip } :
        /\ i < j /\ j < k
        /\ Fits(s, SubSeq(s, Len(StrTerraformProvider) + 1, i - 1),
                   SubSeq(s, i + 2, j - 1), SubSeq(s, j + 1, k - 1),
                   SubSeq(s, k + 1, Len(s) - Len(x)), x)

ManifestOf(f, p) == f.files[TargetDownloadIndexPath(p)].value

\* C21 as stated: for every accepted source file name, the download manifest
\* written for the artifact has the os and arch parsed from the name, which are
\* the platform recorded in the versions index and the last two components of
\* the directory the manifest is stored in.
C21_ManifestPlatformIsParsed ==
    outcome.step = "done" =>
        LET p   == InfoOf(outcome.file)
            dir == Dir(TargetDownloadIndexPath(p))
        IN  /\ ManifestOf(fs, p).OS = p.OS
            /\ ManifestOf(fs, p).Arch = p.Arch
            /\ Listed(fs, p)
            /\ Len(dir) >= 2
            /\ dir[Len(dir) - 1] = ManifestOf(fs, p).OS
            /\ dir[Len(dir)] = ManifestOf(fs, p).Arch

\* The entries of the archive CreateZipFromBinary has just written.
ZipOutEntries == fs.files[ZipOut].entries

\* C22: the entry of an archive generated from a raw binary has modification
\* time 2049-01-01T00:00:00 UTC as a zip reader reads it, whatever the
\* timestamp of the binary.
C22_EntryTimeIs2049 ==
    outcome.step = "packaged" =>
        /\ Len(ZipOutEntries) = 1
        /\ \A i \in 1..Len(ZipOutEntries) :
              MsDosTimeToTime(ZipOutEntries[i].ModTime.Date, ZipOutEntries[i].ModTime.Time)
                = Time(2049, 1, 1, 0, 0, 0)

\* A binary last modified on 2024-02-29 with mode 0644 was packaged.
C22_Witness ==
    /\ outcome.step = "packaged"
    /\ \E f \in src : f.modTime = Time(2024, 2, 29, 13, 59, 58) /\ f.mode = 420
    /\ Len(ZipOutEntries) = 1

\* C23: the checksum manifest written for an artifact is exactly one line: the
\* hex SHA-256 digest of the bytes of the packaged archive, two spaces, the base
\* name of the archive and a newline.
C23_ChecksumManifestIsOneLine ==
    \A p \in Infos :
        IsFile(fs, TargetSHASumsPath(p)) =>
            LET sums == fs.files[TargetSHASumsPath(p)]
            IN  /\ sums.kind = "sums"
                /\ Len(sums.lines) = 1
                /\ IsFile(fs, TargetZipPath(p))
                /\ sums.lines[1].hash = Sha256Hex(fs.files[TargetZipPath(p)])
                /\ sums.lines[1].sep = "  "
                /\ sums.lines[1].name = TargetZipFileName(p)
                /\ sums.lines[1].end = "\n"

\* The checksum manifest of an archive zipped from a raw binary was just
\* written.
C23_Witness ==
    /\ outcome.step = "done"
    /\ ~ IsZipFile(outcome.file)
    /\ TargetSHASumsPath(InfoOf(outcome.file)) \in Wrote(fs)
    /\ fs.files[TargetZipPath(InfoOf(outcome.file))].kind = "zip"

\* The position of a path among the files the step just taken wrote, or 0.
WrittenAt(f, path) ==
    IF path \in Wrote(f) THEN CHOOSE i \in 1..Len(f.log) : f.log[i] = path ELSE 0

\* C24 as stated: the pipeline of a file goes Packaged, Summed, Signed, Indexed:
\* the versions index is written with the entry of the artifact only after its
\* checksum manifest and its signature were written.
C24_IndexedAfterSigned ==
    ( /\ outcome.step # "none"
      /\ Parses(outcome.file)
      /\ TargetVersionsIndexPath(InfoOf(outcome.file)) \in Wrote(fs) )
        => LET p == InfoOf(outcome.file)
           IN  /\ 0 < WrittenAt(fs, TargetZipPath(p))
               /\ WrittenAt(fs, TargetZipPath(p)) < WrittenAt(fs, TargetSHASumsPath(p))
               /\ WrittenAt(fs, TargetSHASumsPath(p)) < WrittenAt(fs, TargetSigPath(p))
               /\ WrittenAt(fs, TargetSigPath(p)) < WrittenAt(fs, TargetVersionsIndexPath(p))

\* The other worker.
Other(w) == 3 - w

\* The version and platform pairs of a sequence of version entries.
Pairs(versions) ==
    { [ Version |-> t.Version, Platform |-> t.Platform ] : t \in Triples(versions) }

\* The version and platform pair of the file of a worker.
WorkerPair(w) ==
    [ Version  |-> WorkerInfo(w).Version,
      Platform |-> [ OS |-> WorkerInfo(w).OS, Arch |-> WorkerInfo(w).Arch ] ]

\* C25: when two workers process two different artifacts of one type with
\* their load, merge and persist steps interleaved and no lock, an entry of
\* the versions index can be lost: the state C25_Witness, where both have
\* returned without error and the persisted index lacks the version and
\* platform of one of them, is reachable.  It is lost because a persist step
\* writes the entries the worker has read and its own, and nothing of what
\* the file holds by then.
C25_PersistWritesWhatWasLoaded ==
    [][ \A w \in Workers :
          (pc[w] = "packaged" /\ pc'[w] = "indexed")
              => Pairs(PersistedVersions(fs', WorkerInfo(w)))
                     = Pairs(vi[w].Versions) \cup { WorkerPair(w) } ]_vars

\* Both workers have returned without error and the persisted index lacks
\* the artifact of one of them.
C25_Witness ==
    /\ pc = << "done", "done" >>
    /\ \E w \in Workers :
          /\ ~Listed(fs, WorkerInfo(w))
          /\ Listed(fs, WorkerInfo(Other(w)))
          /\ HasWholeArchive(fs, WorkerInfo(w))

\* The directory of a type in the destination.
TargetBasePath(p) == Join(<< p.Type >>)

\* C26 as stated: for every file name the parser accepts, processing an
\* artifact of type T writes only paths under the directory of T in the
\* destination.  The code does not keep this: the version of
\* terraform-provider-a_v.._l_x is "..", and its platform directory is
\* download/l/x, beside the directory of type a.
C26_WritesUnderItsType ==
    (outcome.step # "none" /\ Parses(outcome.file))
        => \A path \in Wrote(fs) :
              /\ Len(path) > Len(TargetBasePath(InfoOf(outcome.file)))
              /\ SubSeq(path, 1, Len(TargetBasePath(InfoOf(outcome.file))))
                     = TargetBasePath(InfoOf(outcome.file))

\* The metadata of the unusual accepted names.
OddInfos == { InfoOf(<< name >>) : name \in OddNames }

\* The (type, version, os, arch) of parsed metadata.
KeyOf(p) == << p.Type, p.Version, p.OS, p.Arch >>

\* C29 as stated: the archive, checksum manifest, signature and download
\* manifest paths of a processed file are the paths of no accepted name with
\* another (type, version, os, arch), and none is the versions index path
\* of a type.  The code does not keep this: terraform-provider-._va_l_x
\* (type ".", version "a") and terraform-provider-a_v._l_x (type "a",
\* version ".") both have the download manifest a/download/l/x/index.json.
C29_PathsOfDifferentMetadataDiffer ==
    (outcome.step # "none" /\ Parses(outcome.file))
        => \A p \in OddInfos :
              /\ TargetVersionsIndexPath(p) \notin Outputs(InfoOf(outcome.file))
              /\ KeyOf(p) # KeyOf(InfoOf(outcome.file))
                    => Outputs(p) \cap Outputs(InfoOf(outcome.file)) = {}

\* The download manifests of the destination.
DownloadManifests ==
    { path \in DOMAIN fs.files :
        /\ fs.files[path].kind = "json"
        /\ fs.files[path].doc = "download" }

\* The download manifest at the path agrees with the files of its directory:
\* it names the archive, the checksum manifest and the signature of p by
\* their base names, and its shasum is the digest of the stored archive and
\* the digest the checksum manifest records for it.
AgreesWithDirectory(path, p) ==
    LET v == fs.files[path].value
    IN  /\ path = TargetDownloadIndexPath(p)
        /\ v.Filename = TargetZipFileName(p)
        /\ v.DownloadURL = TargetZipFileName(p)
        /\ v.ShasumsURL = TargetSHASumsFileName(p)
        /\ v.ShasumsSignatureURL = TargetSigFileName(p)
        /\ IsFile(fs, Dir(path) \o << v.Filename >>)
        /\ IsFile(fs, Dir(path) \o << v.ShasumsURL >>)
        /\ IsFile(fs, Dir(path) \o << v.ShasumsSignatureURL >>)
        /\ v.Shasum = Sha256Hex(fs.files[Dir(path) \o << v.Filename >>])
        /\ fs.files[Dir(path) \o << v.ShasumsURL >>]
               = SumsFile(<< SumsLine(v.Shasum, v.Filename) >>)

EarlierDuplicates ==
    LET order == WalkOrder(src)
        here  == CHOOSE i \in 1..Len(order) : order[i] = Head(todo)
    IN  { j \in 1..(here - 1) :
            /\ IsCandidate(order[j])
            /\ Parses(order[j])
            /\ KeyOf(InfoOf(order[j])) = KeyOf(InfoOf(Head(todo))) }

\* The first of the earlier duplicates, as a path.
FirstDuplicate ==
    WalkOrder(src)[CHOOSE j \in EarlierDuplicates : \A k \in EarlierDuplicates : j <= k]

\* The walk is at a candidate that parses and has an earlier duplicate.
AtLaterDuplicate ==
    /\ pc = "walk" /\ todo # << >>
    /\ ~IsDirEntry(src, Head(todo))
    /\ IsCandidate(Head(todo))
    /\ Parses(Head(todo))
    /\ EarlierDuplicates # {}

\* C30: when a source tree holds several candidates that parse to the same
\* (type, version, os, arch), the later ones in walk order write nothing:
\* each is skipped by the gate (or fails to read the index), and in a Build
\* that started on an empty destination the stored archive is the packaging
\* of the first one.
C30_OnlyFirstDuplicatePublished ==
    [][ (AtLaterDuplicate /\ outcome'.step # "none")
          => /\ outcome'.step \in { "skipped", "parsed" }
             /\ fs'.files = fs.files
             /\ fs'.dirs = fs.dirs
             /\ Wrote(fs') = {}
             /\ fresh =>
                   /\ IsFile(fs', TargetZipPath(InfoOf(Head(todo))))
                   /\ fs'.files[TargetZipPath(InfoOf(Head(todo)))]
                         = Packaged(FirstDuplicate, ContentAt(src, FirstDuplicate)) ]_vars

\* A Build that started on an empty destination has skipped the raw binary
\* because it had published the archive of the same name before it.
C30_Witness ==
    /\ pc = "walk"
    /\ fresh
    /\ outcome = [ file |-> << NameRaw1x >>, step |-> "skipped" ]
    /\ \E f \in src : f.path = << SubDir, NameZip1x >>
    /\ fs.files[TargetZipPath(InfoOf(<< NameRaw1x >>))]
          = ContentAt(src, << SubDir, NameZip1x >>)

\* The files of a tree, all at the source root.
Flat(tree) == { [ path |-> << Base(f.path) >>, content |-> f.content ] : f \in tree }

\* The destination the Build started on.
StartFs == IF fresh THEN NoFs ELSE PreparedFs

\* What the Build of the flat arrangement of the source tree makes of the
\* destination the Build started on.
FlatFs == BuildOf(StartFs, Flat(src)).fs

\* No two candidates of the tree parse to the same (type, version, os, arch).
DistinctKeys(tree) ==
    \A f, g \in tree :
        (Parses(f.path) /\ Parses(g.path) /\ KeyOf(InfoOf(f.path)) = KeyOf(InfoOf(g.path)))
            => f = g

\* A versions index without the order of the platforms of a version.
PlatformSets(versions) ==
    [ i \in 1..Len(versions) |->
        [ Version   |-> versions[i].Version,
          Protocols |-> versions[i].Protocols,
          Platforms |-> { versions[i].Platforms[j] : j \in 1..Len(versions[i].Platforms) } ] ]

\* Two files are the same, or are versions indexes that differ in the order
\* of the platforms of a version at most.
SameUpToPlatformOrder(a, b) ==
    \/ a = b
    \/ /\ a.kind = "json" /\ b.kind = "json"
       /\ a.doc = "versions" /\ b.doc = "versions"
       /\ a.value.ID = b.value.ID
       /\ PlatformSets(a.value.Versions) = PlatformSets(b.value.Versions)

=============================================================================
